---- MODULE Spec2Model ----
(***************************************************************************)
(* The mock file-migration primitive of the migration validation tests:    *)
(* performMockMigration, performMockRollback and calculateMockChecksum,    *)
(* driven by a caller that migrates, rolls back and changes the target     *)
(* directory's permission bits, over a small file system.                  *)
(***************************************************************************)
EXTENDS Integers, Sequences, FiniteSets, TLC

(***************************************************************************)
(* Bounds of the model                                                     *)
(***************************************************************************)
\* longest file content, in bytes, that Init puts into the source directory
MaxLen == 1

\* file names of the directory entries
Names == {"a.md", "b.md"}

\* the bytes file contents are built from: ASCII 'A' (valid UTF-8 on its own)
\* and 0xFF (never valid in UTF-8)
ByteAlphabet == {65, 255}

\* the two directories of a call
SourceDir == "source"
TargetDir == "target"
Dirs == {SourceDir, TargetDir}

\* permission bits of a directory: 0o755, 0o555, 0o444
Modes == {"rwx", "r-x", "r--"}

(***************************************************************************)
(* Strings read and written as 'utf8'                                      *)
(***************************************************************************)
ReplacementChar == 65533

\* the UTF-16 code units of one decoded code point
CodeUnits(cp) ==
  IF cp < 65536 THEN <<cp>>
  ELSE <<55296 + ((cp - 65536) \div 1024), 56320 + ((cp - 65536) % 1024)>>

DecoderStart == [need |-> 0, seen |-> 0, cp |-> 0, lo |-> 128, hi |-> 191]

\* fs.readFileSync(file, 'utf8'): the bytes decoded as UTF-8, every
\* ill-formed subsequence replaced by U+FFFD
RECURSIVE utf8DecodeFrom(_, _, _)
utf8DecodeFrom(bytes, i, st) ==
  IF i > Len(bytes)
  THEN IF st.need # 0 THEN <<ReplacementChar>> ELSE <<>>
  ELSE LET b == bytes[i] IN
    IF st.need = 0
    THEN IF b < 128 THEN <<b>> \o utf8DecodeFrom(bytes, i + 1, DecoderStart)
         ELSE IF b >= 194 /\ b <= 223
         THEN utf8DecodeFrom(bytes, i + 1,
                [DecoderStart EXCEPT !.need = 1, !.cp = b - 192])
         ELSE IF b >= 224 /\ b <= 239
         THEN utf8DecodeFrom(bytes, i + 1,
                [need |-> 2, seen |-> 0, cp |-> b - 224,
                 lo |-> IF b = 224 THEN 160 ELSE 128,
                 hi |-> IF b = 237 THEN 159 ELSE 191])
         ELSE IF b >= 240 /\ b <= 244
         THEN utf8DecodeFrom(bytes, i + 1,
                [need |-> 3, seen |-> 0, cp |-> b - 240,
                 lo |-> IF b = 240 THEN 144 ELSE 128,
                 hi |-> IF b = 244 THEN 143 ELSE 191])
         ELSE <<ReplacementChar>> \o utf8DecodeFrom(bytes, i + 1, DecoderStart)
    ELSE IF b < st.lo \/ b > st.hi
         THEN <<ReplacementChar>> \o utf8DecodeFrom(bytes, i, DecoderStart)
         ELSE LET cp == st.cp * 64 + (b - 128) IN
              IF st.seen + 1 = st.need
              THEN CodeUnits(cp) \o utf8DecodeFrom(bytes, i + 1, DecoderStart)
              ELSE utf8DecodeFrom(bytes, i + 1,
                     [need |-> st.need, seen |-> st.seen + 1, cp |-> cp,
                      lo |-> 128, hi |-> 191])

utf8Decode(bytes) == utf8DecodeFrom(bytes, 1, DecoderStart)

IsHighSurrogate(u) == u >= 55296 /\ u <= 56319
IsLowSurrogate(u) == u >= 56320 /\ u <= 57343

EncodeCodePoint(cp) ==
  IF cp < 128 THEN <<cp>>
  ELSE IF cp < 2048 THEN <<192 + (cp \div 64), 128 + (cp % 64)>>
  ELSE IF cp < 65536
  THEN <<224 + (cp \div 4096), 128 + ((cp \div 64) % 64), 128 + (cp % 64)>>
  ELSE <<240 + (cp \div 262144), 128 + ((cp \div 4096) % 64),
         128 + ((cp \div 64) % 64), 128 + (cp % 64)>>

\* fs.writeFileSync(file, content): the string encoded as UTF-8
RECURSIVE utf8EncodeFrom(_, _)
utf8EncodeFrom(str, i) ==
  IF i > Len(str) THEN <<>>
  ELSE LET u == str[i] IN
    IF IsHighSurrogate(u) /\ i < Len(str) /\ IsLowSurrogate(str[i + 1])
    THEN EncodeCodePoint(65536 + (u - 55296) * 1024 + (str[i + 1] - 56320))
           \o utf8EncodeFrom(str, i + 2)
    ELSE IF IsHighSurrogate(u) \/ IsLowSurrogate(u)
    THEN EncodeCodePoint(ReplacementChar) \o utf8EncodeFrom(str, i + 1)
    ELSE EncodeCodePoint(u) \o utf8EncodeFrom(str, i + 1)

\* (variant: the last character of the string is not written)
utf8EncodeTruncated(str) ==
  IF str = <<>> THEN <<>> ELSE utf8EncodeFrom(SubSeq(str, 1, Len(str) - 1), 1)

\* the bytes fs.writeFileSync stores for a string
utf8Encode(str) == utf8EncodeFrom(str, 1)

(***************************************************************************)
(* calculateMockChecksum                                                   *)
(***************************************************************************)
\* a 32-bit integer as two 16-bit halves, so that no intermediate value
\* leaves the 32-bit range
LoHalf(h) == h % 65536
HiHalf(h) == ((h - LoHalf(h)) \div 65536) % 65536
FromHalves(hi, lo) ==
  IF hi >= 32768 THEN (hi - 65536) * 65536 + lo ELSE hi * 65536 + lo

\* hash << 5
ShiftLeft5(h) ==
  LET lo32 == LoHalf(h) * 32
      hi32 == HiHalf(h) * 32 + (lo32 \div 65536)
  IN FromHalves(hi32 % 65536, lo32 % 65536)

\* ToInt32(a - b + c) for 32-bit a, b and a code unit c
SubAddInt32(a, b, c) ==
  LET lo == LoHalf(a) - LoHalf(b) + c
      hi == HiHalf(a) - HiHalf(b) + (lo \div 65536)
  IN FromHalves(hi % 65536, lo % 65536)

\* one round of the loop: hash = ((hash << 5) - hash) + char; hash & hash
HashStep(hash, char) == SubAddInt32(ShiftLeft5(hash), hash, char)

RECURSIVE HashFrom(_, _, _)
HashFrom(content, i, hash) ==
  IF i > Len(content) THEN hash
  ELSE HashFrom(content, i + 1, HashStep(hash, content[i]))

HexDigit(d) ==
  <<"0", "1", "2", "3", "4", "5", "6", "7",
    "8", "9", "a", "b", "c", "d", "e", "f">>[d + 1]

RECURSIVE HexDigits(_)
HexDigits(n) ==
  IF n < 16 THEN <<HexDigit(n)>>
  ELSE HexDigits(n \div 16) \o <<HexDigit(n % 16)>>

\* hash.toString(16): sign and hexadecimal digits of the magnitude
ToString16(h) ==
  IF h >= 0 THEN HexDigits(h)
  ELSE IF h = -2147483647 - 1
  THEN <<"-", "8", "0", "0", "0", "0", "0", "0", "0">>
  ELSE <<"-">> \o HexDigits(-h)

calculateMockChecksum(content) == ToString16(HashFrom(content, 1, 0))

(***************************************************************************)
(* The file system                                                         *)
(***************************************************************************)
Absent == [kind |-> "absent", bytes |-> <<>>, readable |-> TRUE,
           writable |-> TRUE, atime |-> "never", mtime |-> "never"]

Directory == [kind |-> "dir", bytes |-> <<>>, readable |-> TRUE,
              writable |-> TRUE, atime |-> "old", mtime |-> "old"]

File(bytes, readable, atime, mtime) ==
  [kind |-> "file", bytes |-> bytes, readable |-> readable,
   writable |-> TRUE, atime |-> atime, mtime |-> mtime]

\* the entry with its write permission taken away (a file of mode 0o444)
ReadOnly(entry) == [entry EXCEPT !.writable = FALSE]

\* byte strings of length 1..n over the alphabet
RECURSIVE BytesUpTo(_)
BytesUpTo(n) ==
  IF n = 0 THEN {}
  ELSE LET shorter == BytesUpTo(n - 1) IN
       shorter \cup {<<b>> : b \in ByteAlphabet}
               \cup {s \o <<b>> : s \in shorter, b \in ByteAlphabet}

Contents == BytesUpTo(MaxLen)

\* what a source entry can be when the caller hands the directory over: a
\* regular file, a regular file the process may not read, or a sub-directory
SourceEntries ==
  {Absent, Directory}
    \cup {File(c, TRUE, "srcA", "srcM") : c \in Contents}
    \cup {File(<<65>>, FALSE, "srcA", "srcM")}

\* what the target can hold before the first call: nothing, a directory, a
\* text file of one character, written as UTF-8, or a read-only text file
TargetEntries ==
  {Absent, Directory, ReadOnly(File(<<65>>, TRUE, "tgtA", "tgtM"))}
    \cup {File(utf8Encode(utf8Decode(<<b>>)), TRUE, "tgtA", "tgtM") :
            b \in ByteAlphabet}

\* the orders in which fs.readdirSync can list the names of a directory
ReaddirOrders(S) ==
  {p \in [1..Cardinality(S) -> S] : \A x \in S : \E i \in DOMAIN p : p[i] = x}

\* (variant: the check asks for search permission instead of write permission)
CanWriteSearchable(mode) == mode \in {"rwx", "r-x"}

\* permission bits the source directory can have: 0o755, 0o300
SourceModes == {"rwx", "-wx"}

\* fs.accessSync(dir, fs.constants.W_OK) returns without throwing
CanWrite(mode) == mode = "rwx"
\* the entries of the directory can be listed (read permission)
CanRead(mode) == mode \in {"rwx", "r-x", "r--"}
\* the entries of the directory can be looked up (search permission)
CanSearch(mode) == mode \in {"rwx", "r-x"}

(***************************************************************************)
(* Results                                                                 *)
(***************************************************************************)
\* an optional field: absent, or holding one value
Undefined == <<>>
Defined(v) == <<v>>
Value(field) == field[1]
NoError == <<>>

\* the values of an optional boolean option
True == "true"
False == "false"
Unset == "unset"

\* JavaScript truthiness of an optional boolean option
Truthy(v) == v = True

PermissionDeniedMessage ==
  <<"permission", "denied", "-", "target", "directory", "not", "writable">>

\* error.message of the exception a failed system call throws
ErrnoMessage(code, syscall) ==
  IF code = "EACCES"
  THEN <<"EACCES", ":", "permission", "denied", ",", syscall>>
  ELSE <<"EISDIR", ":", "illegal", "operation", "on", "a", "directory", ",",
         syscall>>

MigrationOptions(po, cri, eic, soe, rt, pm) ==
  [preserveOriginal |-> po, createRollbackInfo |-> cri,
   enableIntegrityChecks |-> eic, skipOnError |-> soe, retry |-> rt,
   preserveMetadata |-> pm]

\* the option objects the caller passes: none of the options, and two that
\* between them give every option both a truthy and a falsy value
OptionSets ==
  { MigrationOptions(Unset, Unset, Unset, Unset, Unset, Unset),
    MigrationOptions(True, True, Unset, False, True, True),
    MigrationOptions(False, False, True, True, Unset, False) }

MigrationResult(success, error, rollbackInfo, integrityChecks) ==
  [success |-> success, error |-> error, rollbackInfo |-> rollbackInfo,
   integrityChecks |-> integrityChecks]

\* (variant: the descriptor lists no file)
RollbackInfoNothing(sourceDir, targetDir, migratedFiles) ==
  [sourceDir |-> sourceDir, targetDir |-> targetDir,
   migratedFiles |-> <<>>, timestamp |-> "now"]

\* the descriptor a successful migration returns with createRollbackInfo
RollbackInfo(sourceDir, targetDir, migratedFiles) ==
  [sourceDir |-> sourceDir, targetDir |-> targetDir,
   migratedFiles |-> migratedFiles, timestamp |-> "now"]

IntegrityCheckResult(fileCount, checksums) ==
  [fileCount |-> fileCount, allChecksPassed |-> TRUE, checksums |-> checksums]

EmptyMap == [n \in {} |-> <<>>]

(***************************************************************************)
(* performMockMigration                                                    *)
(***************************************************************************)
\* the running state of one pass: the file system, the local migratedFiles
\* and checksums, the names examined so far, and the message of the
\* exception that ended the pass (NoError while none was thrown)
PassState(fsys, migratedFiles, checksums, examined, error) ==
  [fs |-> fsys, migratedFiles |-> migratedFiles, checksums |-> checksums,
   examined |-> examined, error |-> error]

Throw(st, message) == [st EXCEPT !.error = message]

\* (variant: no catch, the exception leaves the function)
EscapedUncaught(st) == st.error

\* the exception that leaves the function instead of a result: none, the
\* try block spans the whole body and its catch returns a result
Escaped(st) == NoError

\* (variant: the timestamps are never copied)
WriteTargetNoUtimes(old, content, stats, options) ==
  File(utf8Encode(content), TRUE,
       IF old.kind = "file" THEN old.atime ELSE "now", "now")

\* fs.writeFileSync(targetFile, content), then fs.utimesSync when
\* preserveMetadata is set
WriteTarget(old, content, stats, options) ==
  LET written == File(utf8Encode(content), TRUE,
                      IF old.kind = "file" THEN old.atime ELSE "now", "now")
  IN IF Truthy(options.preserveMetadata)
     THEN [written EXCEPT !.atime = stats.atime, !.mtime = stats.mtime]
     ELSE written

\* (variant: no idempotency check, every file is written again)
AlreadyMigratedNever(old, content) == FALSE

\* the idempotency check: the target file exists and reads as the content
AlreadyMigrated(old, content) ==
  old.kind = "file" /\ utf8Decode(old.bytes) = content

\* (variant: every entry that exists is taken for a regular file)
IsFileAny(stats) == stats.kind # "absent"

\* stats.isFile()
IsFile(stats) == stats.kind = "file"

\* (variant: a mirror, the target entry of a source entry that is not a
\* regular file is removed)
MigrateEntryMirroring(st, sourceDir, targetDir, file, options) ==
  LET stats == st.fs[sourceDir][file]
      old == st.fs[targetDir][file]
      seen == [st EXCEPT !.examined = Append(@, file)]
  IN
  IF ~IsFile(stats) THEN [seen EXCEPT !.fs[targetDir][file] = Absent]
  ELSE IF ~stats.readable THEN Throw(seen, ErrnoMessage("EACCES", "open"))
  ELSE
    LET content == utf8Decode(stats.bytes)
        summed ==
          IF Truthy(options.enableIntegrityChecks)
          THEN [seen EXCEPT !.checksums =
                  (file :> calculateMockChecksum(content)) @@ @]
          ELSE seen
    IN
    IF old.kind = "dir" THEN Throw(summed, ErrnoMessage("EISDIR", "read"))
    ELSE IF AlreadyMigrated(old, content) THEN summed
    ELSE IF old.kind = "file" /\ ~old.writable
    THEN Throw(summed, ErrnoMessage("EACCES", "open"))
    ELSE [summed EXCEPT
            !.fs[targetDir][file] = WriteTarget(old, content, stats, options),
            !.migratedFiles = Append(@, file)]

\* one iteration of the loop over the source entries
MigrateEntry(st, sourceDir, targetDir, file, options) ==
  LET stats == st.fs[sourceDir][file]
      old == st.fs[targetDir][file]
      seen == [st EXCEPT !.examined = Append(@, file)]
  IN
  IF ~IsFile(stats) THEN seen
  ELSE IF ~stats.readable THEN Throw(seen, ErrnoMessage("EACCES", "open"))
  ELSE
    LET content == utf8Decode(stats.bytes)
        summed ==
          IF Truthy(options.enableIntegrityChecks)
          THEN [seen EXCEPT !.checksums =
                  (file :> calculateMockChecksum(content)) @@ @]
          ELSE seen
    IN
    IF old.kind = "dir" THEN Throw(summed, ErrnoMessage("EISDIR", "read"))
    ELSE IF AlreadyMigrated(old, content) THEN summed
    ELSE IF old.kind = "file" /\ ~old.writable
    THEN Throw(summed, ErrnoMessage("EACCES", "open"))
    ELSE [summed EXCEPT
            !.fs[targetDir][file] = WriteTarget(old, content, stats, options),
            !.migratedFiles = Append(@, file)]

\* (variant: a move instead of a copy, the source file is unlinked after the
\* write unless preserveOriginal is set)
RECURSIVE MigrateLoopMoving(_, _, _, _, _, _)
MigrateLoopMoving(st, files, i, sourceDir, targetDir, options) ==
  IF i > Len(files) \/ st.error # NoError THEN st
  ELSE LET after == MigrateEntry(st, sourceDir, targetDir, files[i], options)
           moved == IF /\ after.error = NoError
                       /\ Len(after.migratedFiles) > Len(st.migratedFiles)
                       /\ ~Truthy(options.preserveOriginal)
                    THEN [after EXCEPT !.fs[sourceDir][files[i]] = Absent]
                    ELSE after
       IN MigrateLoopMoving(moved, files, i + 1, sourceDir, targetDir, options)

\* the loop: entries in enumeration order, stopping at the first exception
RECURSIVE MigrateLoop(_, _, _, _, _, _)
MigrateLoop(st, files, i, sourceDir, targetDir, options) ==
  IF i > Len(files) \/ st.error # NoError THEN st
  ELSE MigrateLoop(MigrateEntry(st, sourceDir, targetDir, files[i], options),
                   files, i + 1, sourceDir, targetDir, options)

\* fs.readdirSync(dir): the names present, in the directory's order
Readdir(fsys, order, dir) ==
  SelectSeq(order, LAMBDA n : fsys[dir][n].kind # "absent")

\* (variant: a failed pass still reports the files it wrote)
FailureResultWithFiles(st, sourceDir, targetDir) ==
  MigrationResult(FALSE, st.error,
                  Defined(RollbackInfo(sourceDir, targetDir, st.migratedFiles)),
                  Undefined)

\* the value the catch clause returns
FailureResult(st, sourceDir, targetDir) ==
  MigrationResult(FALSE, st.error, Undefined, Undefined)

\* (variant: success is reported whatever the pass met, the error beside it)
MigrationOutcomeLenient(st, sourceDir, targetDir, options) ==
  MigrationResult(TRUE, st.error, Undefined, Undefined)

\* the MigrationResult the function returns for the final state of the pass
MigrationOutcome(st, sourceDir, targetDir, options) ==
  IF st.error # NoError
  THEN FailureResult(st, sourceDir, targetDir)
  ELSE MigrationResult(TRUE, Undefined,
         IF Truthy(options.createRollbackInfo)
         THEN Defined(RollbackInfo(sourceDir, targetDir, st.migratedFiles))
         ELSE Undefined,
         IF Truthy(options.enableIntegrityChecks)
         THEN Defined(IntegrityCheckResult(Len(st.migratedFiles),
                                           st.checksums))
         ELSE Undefined)

\* (variant: a failed pass empties the target directory before it returns)
performMockMigrationWiping(fsys, modes, order, sourceDir, targetDir, options) ==
  LET start == PassState(fsys, <<>>, EmptyMap, <<>>, NoError) IN
  IF ~CanWrite(modes[targetDir])
  THEN [fs |-> fsys, pass |-> start, thrown |-> NoError,
        result |-> MigrationResult(FALSE, PermissionDeniedMessage,
                                   Undefined, Undefined)]
  ELSE LET st == IF ~CanRead(modes[sourceDir])
                 THEN Throw(start, ErrnoMessage("EACCES", "scandir"))
                 ELSE MigrateLoop(start, Readdir(fsys, order, sourceDir), 1,
                                  sourceDir, targetDir, options)
           left == IF st.error = NoError THEN st.fs
                   ELSE [st.fs EXCEPT ![targetDir] = [n \in Names |-> Absent]]
       IN [fs |-> left, pass |-> st, thrown |-> Escaped(st),
           result |-> MigrationOutcome(st, sourceDir, targetDir, options)]

\* the whole call: the file system it leaves, the result it returns and the
\* final state of its pass
performMockMigration(fsys, modes, order, sourceDir, targetDir, options) ==
  LET start == PassState(fsys, <<>>, EmptyMap, <<>>, NoError) IN
  IF ~CanWrite(modes[targetDir])
  THEN [fs |-> fsys, pass |-> start, thrown |-> NoError,
        result |-> MigrationResult(FALSE, PermissionDeniedMessage,
                                   Undefined, Undefined)]
  ELSE LET st == IF ~CanRead(modes[sourceDir])
                 THEN Throw(start, ErrnoMessage("EACCES", "scandir"))
                 ELSE MigrateLoop(start, Readdir(fsys, order, sourceDir), 1,
                                  sourceDir, targetDir, options)
       IN [fs |-> st.fs, pass |-> st, thrown |-> Escaped(st),
           result |-> MigrationOutcome(st, sourceDir, targetDir, options)]

(***************************************************************************)
(* performMockRollback                                                     *)
(***************************************************************************)
\* (variant: the path is never found)
ExistsSyncNever(fsys, modes, dir, file) == FALSE

\* fs.existsSync(path.join(dir, file))
ExistsSync(fsys, modes, dir, file) ==
  CanSearch(modes[dir]) /\ fsys[dir][file].kind # "absent"

\* (variant: unlink without the existence check, a missing file throws)
RollbackEntryUnguarded(st, modes, targetDir, file) ==
  LET seen == [st EXCEPT !.examined = Append(@, file)] IN
  IF ~CanSearch(modes[targetDir])
  THEN Throw(seen, ErrnoMessage("EACCES", "unlink"))
  ELSE IF st.fs[targetDir][file].kind = "absent"
  THEN Throw(seen, <<"ENOENT", ":", "no", "such", "file", "or", "directory",
                     ",", "unlink">>)
  ELSE IF ~CanWrite(modes[targetDir])
  THEN Throw(seen, ErrnoMessage("EACCES", "unlink"))
  ELSE IF st.fs[targetDir][file].kind = "dir"
  THEN Throw(seen, ErrnoMessage("EISDIR", "unlink"))
  ELSE [seen EXCEPT !.fs[targetDir][file] = Absent]

\* one iteration of the loop over rollbackInfo.migratedFiles
RollbackEntry(st, modes, targetDir, file) ==
  LET seen == [st EXCEPT !.examined = Append(@, file)] IN
  IF ~ExistsSync(st.fs, modes, targetDir, file) THEN seen
  ELSE IF ~CanWrite(modes[targetDir])
  THEN Throw(seen, ErrnoMessage("EACCES", "unlink"))
  ELSE IF st.fs[targetDir][file].kind = "dir"
  THEN Throw(seen, ErrnoMessage("EISDIR", "unlink"))
  ELSE [seen EXCEPT !.fs[targetDir][file] = Absent]

\* (variant: only the first listed file is looked at)
RollbackLoopFirstOnly(st, modes, files, i, targetDir) ==
  IF files = <<>> THEN st ELSE RollbackEntry(st, modes, targetDir, files[1])

\* the loop over rollbackInfo.migratedFiles, stopping at the first exception
RECURSIVE RollbackLoop(_, _, _, _, _)
RollbackLoop(st, modes, files, i, targetDir) ==
  IF i > Len(files) \/ st.error # NoError THEN st
  ELSE RollbackLoop(RollbackEntry(st, modes, targetDir, files[i]),
                    modes, files, i + 1, targetDir)

\* (variant: the files are looked up in the descriptor's source directory)
performMockRollbackInSource(fsys, modes, rollbackInfo) ==
  LET st == RollbackLoop(PassState(fsys, <<>>, EmptyMap, <<>>, NoError),
                         modes, rollbackInfo.migratedFiles, 1,
                         rollbackInfo.sourceDir)
  IN [fs |-> st.fs, pass |-> st, thrown |-> Escaped(st),
      result |-> IF st.error # NoError
                 THEN MigrationResult(FALSE, st.error, Undefined, Undefined)
                 ELSE MigrationResult(TRUE, Undefined, Undefined, Undefined)]

performMockRollback(fsys, modes, rollbackInfo) ==
  LET st == RollbackLoop(PassState(fsys, <<>>, EmptyMap, <<>>, NoError),
                         modes, rollbackInfo.migratedFiles, 1,
                         rollbackInfo.targetDir)
  IN [fs |-> st.fs, pass |-> st, thrown |-> Escaped(st),
      result |-> IF st.error # NoError
                 THEN MigrationResult(FALSE, st.error, Undefined, Undefined)
                 ELSE MigrationResult(TRUE, Undefined, Undefined, Undefined)]

(***************************************************************************)
(* The caller: state and actions                                           *)
(***************************************************************************)
VARIABLES
  fs,        \* fs[dir][name]: the entry under that name in the directory
  dirMode,   \* dirMode[dir]: the directory's permission bits
  readdir,   \* the order in which readdirSync lists the names
  held,      \* the rollbackInfo the caller keeps, if it has one
  last,      \* the most recent call of the primitive
  prev,      \* how that call relates to the call before it
  calls,     \* calls[c]: the locals of a migration that runs step by step
  startFs,   \* the file system before the step-by-step migrations began
  fixture    \* the subject of the 'Migration Safety and Rollback' and SLO
             \* benchmark tests that is being exercised, if one is

vars == <<fs, dirMode, readdir, held, last, prev, calls, startFs, fixture>>

\* the variables of performMockMigration and performMockRollback
primitiveVars == <<fs, dirMode, readdir, held, last, prev, calls, startFs>>

\* fixture while the tests' own subjects are not exercised
NoFixture == [subject |-> "none"]

\* a finished call: what was called with which arguments on which file
\* system, and what came back
Call(op, options, descriptor, preFs, preMode, out) ==
  [op |-> op, options |-> options, descriptor |-> descriptor,
   preFs |-> preFs, preMode |-> preMode, result |-> out.result,
   thrown |-> out.thrown, migratedFiles |-> out.pass.migratedFiles,
   checksums |-> out.pass.checksums, examined |-> out.pass.examined]

NoOptions == MigrationOptions(Unset, Unset, Unset, Unset, Unset, Unset)
EmptyFs == [d \in Dirs |-> [n \in Names |-> Absent]]

\* the value of last and prev while no call has been made
NoCall ==
  Call("none", NoOptions, Undefined, EmptyFs, [d \in Dirs |-> "rwx"],
       [fs |-> EmptyFs, thrown |-> NoError,
        result |-> MigrationResult(FALSE, NoError, Undefined, Undefined),
        pass |-> PassState(EmptyFs, <<>>, EmptyMap, <<>>, NoError)])

\* how a call that is about to be made relates to the call before it:
\*   "repeat"  the same operation with the same arguments, under the same
\*             permission bits (first the flag: the earlier call succeeded)
\*   "undo"    a rollback of the descriptor the earlier, successful
\*             migration returned, under the same permission bits
\*   "retry"   a migration after a migration that was refused for lack of
\*             write permission
\*   "stale"   a rollback of a descriptor after a migration that did not
\*             return it (first the flag: that migration succeeded)
Relation(before, op, options, descriptor, modeNow) ==
  IF /\ before.op = op /\ before.options = options
     /\ before.descriptor = descriptor /\ before.preMode = modeNow
  THEN <<before.result.success, "repeat">>
  ELSE IF /\ before.op = "migrate" /\ op = "rollback"
          /\ before.result.success
          /\ before.result.rollbackInfo = descriptor
          /\ before.preMode = modeNow
  THEN <<TRUE, "undo">>
  ELSE IF /\ before.op = "migrate" /\ op = "rollback"
          /\ before.result.rollbackInfo # descriptor
  THEN <<before.result.success, "stale">>
  ELSE IF /\ before.op = "migrate" /\ op = "migrate"
          /\ before.result.error = PermissionDeniedMessage
  THEN <<FALSE, "retry">>
  ELSE <<FALSE, "other">>

\* what the earlier migration did to the target files a rollback finds:
\* under "undo" the names of the files it overwrote, under "stale" the names
\* of the files it wrote
Touched(before, relation, fsys) ==
  LET changed == {n \in Names : fsys[TargetDir][n] # before.preFs[TargetDir][n]}
  IN IF relation = "undo"
     THEN {n \in changed : before.preFs[TargetDir][n].kind = "file"}
     ELSE IF relation = "stale" THEN changed
     ELSE {}

\* the relation of a call to the call before it, as prev keeps it
Related(before, op, options, descriptor, modeNow, fsys) ==
  LET relation == Relation(before, op, options, descriptor, modeNow)
  IN Append(relation, Touched(before, relation[2], fsys))

\* a second target directory, for two migrations that run at the same time
OtherTargetDir == "target2"
ConcurrentDirs == Dirs \cup {OtherTargetDir}

\* the two calls in flight
CallIds == {"first", "second"}

\* the locals of one call of performMockMigration and its position: pc is
\* the file operation it is about to make; seen is the target entry as its
\* latest existsSync/readFileSync found it, and staleWrites the files it
\* wrote after the target entry had changed since then
CallLocals(targetDir, options, pc) ==
  [targetDir |-> targetDir, options |-> options, pc |-> pc,
   files |-> <<>>, i |-> 0, stats |-> Absent, content |-> <<>>,
   seen |-> Absent, migratedFiles |-> <<>>, checksums |-> EmptyMap,
   examined |-> <<>>, error |-> NoError, result |-> Undefined,
   staleWrites |-> {}]

\* calls while no migration runs step by step
NoCalls == [c \in CallIds |-> CallLocals(TargetDir, NoOptions, "idle")]

Init ==
  /\ fixture = NoFixture
  /\ calls = NoCalls
  /\ startFs = EmptyFs
  /\ fs \in [Dirs -> [Names -> SourceEntries \cup TargetEntries]]
  /\ \A n \in Names : /\ fs[SourceDir][n] \in SourceEntries
                      /\ fs[TargetDir][n] \in TargetEntries
  /\ dirMode \in [Dirs -> SourceModes]
  /\ dirMode[TargetDir] = "rwx"
  /\ readdir \in ReaddirOrders(Names)
  /\ held = Undefined
  /\ last = NoCall
  /\ prev = <<FALSE, "other", {}>>

\* performMockMigration(sourceDir, targetDir, options)
Migrate(options) ==
  LET out == performMockMigration(fs, dirMode, readdir, SourceDir, TargetDir,
                                  options)
  IN /\ fs' = out.fs
     /\ held' = IF out.result.rollbackInfo # Undefined
                THEN out.result.rollbackInfo ELSE held
     /\ last' = Call("migrate", options, Undefined, fs, dirMode, out)
     /\ prev' = Related(last, "migrate", options, Undefined, dirMode, fs)
     /\ UNCHANGED <<dirMode, readdir, calls, startFs, fixture>>

\* performMockRollback(migrationResult.rollbackInfo)
Rollback ==
  /\ held # Undefined
  /\ LET out == performMockRollback(fs, dirMode, Value(held))
     IN /\ fs' = out.fs
        /\ last' = Call("rollback", NoOptions, held, fs, dirMode, out)
        /\ prev' = Related(last, "rollback", NoOptions, held, dirMode, fs)
  /\ UNCHANGED <<dirMode, readdir, held, calls, startFs, fixture>>

\* fs.chmodSync(targetDir, mode)
Chmod(mode) ==
  /\ dirMode[TargetDir] # mode
  /\ dirMode' = [dirMode EXCEPT ![TargetDir] = mode]
  /\ UNCHANGED <<fs, readdir, held, last, prev, calls, startFs, fixture>>

Next ==
  \/ \E options \in OptionSets : Migrate(options)
  \/ Rollback
  \/ \E mode \in Modes : Chmod(mode)

Spec == Init /\ [][Next]_vars

(***************************************************************************)
(* Two calls of performMockMigration interleaved file operation by file    *)
(* operation                                                               *)
(***************************************************************************)
\* what the source holds when the two calls start
ConcurrentSourceEntries ==
  {Absent, Directory, File(<<65>>, FALSE, "srcA", "srcM")}
    \cup {File(<<b>>, TRUE, "srcA", "srcM") : b \in ByteAlphabet}

\* what a target holds when the two calls start
ConcurrentTargetEntries == {Absent, File(<<65>>, TRUE, "tgtA", "tgtM")}

\* (variant: every call builds its target paths in the same directory)
TargetFileShared(targetDir, file) == <<TargetDir, file>>

\* path.join(targetDir, file)
TargetFile(targetDir, file) == <<targetDir, file>>

\* the entry at a path
At(fsys, path) == fsys[path[1]][path[2]]

\* the file the call is working on and its target path
Current(c) == calls[c].files[calls[c].i]
CurrentTarget(c) == TargetFile(calls[c].targetDir, Current(c))

\* the call's locals after its loop moved to the next entry, or left
NextEntry(locals) ==
  [locals EXCEPT !.i = @ + 1,
                 !.pc = IF locals.i + 1 > Len(locals.files)
                        THEN "return" ELSE "stat"]

\* (variant: with options.retry the failed entry is tried again)
CaughtRetrying(locals, message) ==
  IF Truthy(locals.options.retry) /\ locals.i > 0
  THEN [locals EXCEPT !.pc = "stat"]
  ELSE [locals EXCEPT !.error = message, !.pc = "return"]

\* the call's locals after an exception took it to the catch clause
Caught(locals, message) == [locals EXCEPT !.error = message, !.pc = "return"]

ConcurrentInit ==
  /\ fixture = NoFixture
  /\ \E src \in [Names -> ConcurrentSourceEntries],
        tgt \in [Names -> ConcurrentTargetEntries],
        other \in [Names -> ConcurrentTargetEntries] :
       fs = [d \in ConcurrentDirs |->
               IF d = SourceDir THEN src
               ELSE IF d = TargetDir THEN tgt ELSE other]
  /\ startFs = fs
  /\ dirMode = [d \in ConcurrentDirs |-> "rwx"]
  /\ readdir \in ReaddirOrders(Names)
  /\ \E options \in OptionSets, secondTarget \in {TargetDir, OtherTargetDir} :
       /\ secondTarget = TargetDir =>
            fs[OtherTargetDir] = [n \in Names |-> Absent]
       /\ calls = [c \in CallIds |->
                     CallLocals(IF c = "first" THEN TargetDir
                                ELSE secondTarget, options, "access")]
  /\ held = Undefined
  /\ last = NoCall
  /\ prev = <<FALSE, "other", {}>>

\* fs.accessSync(targetDir, fs.constants.W_OK)
AccessStep(c) ==
  /\ calls[c].pc = "access"
  /\ calls' = [calls EXCEPT ![c] =
       IF ~CanWrite(dirMode[@.targetDir])
       THEN [@ EXCEPT !.pc = "done",
                      !.result = Defined(MigrationResult(FALSE,
                                   PermissionDeniedMessage, Undefined,
                                   Undefined))]
       ELSE [@ EXCEPT !.pc = "readdir"]]
  /\ UNCHANGED <<fs, dirMode, readdir, held, last, prev, startFs, fixture>>

\* fs.readdirSync(sourceDir)
ReaddirStep(c) ==
  /\ calls[c].pc = "readdir"
  /\ calls' = [calls EXCEPT ![c] =
       IF ~CanRead(dirMode[SourceDir])
       THEN Caught(@, ErrnoMessage("EACCES", "scandir"))
       ELSE NextEntry([@ EXCEPT !.files = Readdir(fs, readdir, SourceDir)])]
  /\ UNCHANGED <<fs, dirMode, readdir, held, last, prev, startFs, fixture>>

\* fs.statSync(sourceFile) and stats.isFile()
StatStep(c) ==
  /\ calls[c].pc = "stat"
  /\ LET stats == fs[SourceDir][Current(c)]
         seen == [calls[c] EXCEPT !.stats = stats,
                                  !.examined = Append(@, Current(c))]
     IN calls' = [calls EXCEPT ![c] =
          IF IsFile(stats) THEN [seen EXCEPT !.pc = "read"]
          ELSE NextEntry(seen)]
  /\ UNCHANGED <<fs, dirMode, readdir, held, last, prev, startFs, fixture>>

\* fs.readFileSync(sourceFile, 'utf8') and the checksum of what it read
ReadStep(c) ==
  /\ calls[c].pc = "read"
  /\ LET source == fs[SourceDir][Current(c)]
         content == utf8Decode(source.bytes)
     IN calls' = [calls EXCEPT ![c] =
          IF ~source.readable THEN Caught(@, ErrnoMessage("EACCES", "open"))
          ELSE [@ EXCEPT
                  !.content = content,
                  !.checksums =
                    IF Truthy(calls[c].options.enableIntegrityChecks)
                    THEN (Current(c) :> calculateMockChecksum(content)) @@ @
                    ELSE @,
                  !.pc = "exists"]]
  /\ UNCHANGED <<fs, dirMode, readdir, held, last, prev, startFs, fixture>>

\* fs.existsSync(targetFile)
ExistsStep(c) ==
  /\ calls[c].pc = "exists"
  /\ calls' = [calls EXCEPT ![c] =
       [@ EXCEPT !.seen = At(fs, CurrentTarget(c)),
                 !.pc = IF ExistsSync(fs, dirMode, CurrentTarget(c)[1],
                                      CurrentTarget(c)[2])
                        THEN "compare" ELSE "write"]]
  /\ UNCHANGED <<fs, dirMode, readdir, held, last, prev, startFs, fixture>>

\* fs.readFileSync(targetFile, 'utf8') and existingContent === content
CompareStep(c) ==
  /\ calls[c].pc = "compare"
  /\ LET old == At(fs, CurrentTarget(c))
         seen == [calls[c] EXCEPT !.seen = old]
     IN calls' = [calls EXCEPT ![c] =
          IF old.kind = "dir"
          THEN Caught(seen, ErrnoMessage("EISDIR", "read"))
          ELSE IF old.kind = "absent"
          THEN Caught(seen, <<"ENOENT", ":", "no", "such", "file", "or",
                              "directory", ",", "open">>)
          ELSE IF AlreadyMigrated(old, calls[c].content) THEN NextEntry(seen)
          ELSE [seen EXCEPT !.pc = "write"]]
  /\ UNCHANGED <<fs, dirMode, readdir, held, last, prev, startFs, fixture>>

\* fs.writeFileSync(targetFile, content) and migratedFiles.push(file)
WriteStep(c) ==
  /\ calls[c].pc = "write"
  /\ LET path == CurrentTarget(c)
         old == At(fs, path)
         failed == old.kind = "dir" \/ (old.kind = "file" /\ ~old.writable)
     IN /\ fs' = IF failed THEN fs
                 ELSE [fs EXCEPT ![path[1]][path[2]] =
                         WriteTarget(old, calls[c].content, calls[c].stats,
                                     NoOptions)]
        /\ calls' = [calls EXCEPT ![c] =
             IF old.kind = "dir" THEN Caught(@, ErrnoMessage("EISDIR", "open"))
             ELSE IF failed THEN Caught(@, ErrnoMessage("EACCES", "open"))
             ELSE LET pushed ==
                        [@ EXCEPT !.migratedFiles = Append(@, Current(c)),
                                  !.staleWrites =
                                    IF old # calls[c].seen
                                    THEN @ \cup {Current(c)} ELSE @]
                  IN IF Truthy(calls[c].options.preserveMetadata)
                     THEN [pushed EXCEPT !.pc = "utimes"]
                     ELSE NextEntry(pushed)]
  /\ UNCHANGED <<dirMode, readdir, held, last, prev, startFs, fixture>>

\* fs.utimesSync(targetFile, stats.atime, stats.mtime)
UtimesStep(c) ==
  /\ calls[c].pc = "utimes"
  /\ LET path == CurrentTarget(c) IN
     fs' = [fs EXCEPT ![path[1]][path[2]].atime = calls[c].stats.atime,
                      ![path[1]][path[2]].mtime = calls[c].stats.mtime]
  /\ calls' = [calls EXCEPT ![c] = NextEntry(@)]
  /\ UNCHANGED <<dirMode, readdir, held, last, prev, startFs, fixture>>

\* the return after the loop, or from the catch clause
ReturnStep(c) ==
  /\ calls[c].pc = "return"
  /\ LET locals == calls[c]
         st == PassState(fs, locals.migratedFiles, locals.checksums,
                         locals.examined, locals.error)
     IN calls' = [calls EXCEPT ![c] =
          [locals EXCEPT !.pc = "done",
                         !.result = Defined(MigrationOutcome(st, SourceDir,
                                      locals.targetDir, locals.options))]]
  /\ UNCHANGED <<fs, dirMode, readdir, held, last, prev, startFs, fixture>>

ConcurrentNext ==
  \E c \in CallIds :
    \/ AccessStep(c)
    \/ ReaddirStep(c)
    \/ StatStep(c)
    \/ ReadStep(c)
    \/ ExistsStep(c)
    \/ CompareStep(c)
    \/ WriteStep(c)
    \/ UtimesStep(c)
    \/ ReturnStep(c)

ConcurrentSpec == ConcurrentInit /\ [][ConcurrentNext]_vars

(***************************************************************************)
(* JavaScript values of the tests' records                                 *)
(***************************************************************************)
\* a value is its type and its text; an object is a function from the
\* names of its own properties to values
JsNumber(text) == [type |-> "number", repr |-> <<text>>]
JsString(tokens) == [type |-> "string", repr |-> tokens]
JsBoolean(b) == [type |-> "boolean", repr |-> <<IF b THEN "true" ELSE "false">>]
JsUndefined == [type |-> "undefined", repr |-> <<"undefined">>]

\* object.property: undefined when the object has no such property
Get(object, property) ==
  IF property \in DOMAIN object THEN object[property] ELSE JsUndefined

\* ToBoolean(value)
JsTruthy(value) ==
  IF value.type = "boolean" THEN value.repr = <<"true">>
  ELSE IF value.type = "string" THEN value.repr # <<>>
  ELSE IF value.type = "number" THEN value.repr \notin {<<"0">>, <<"NaN">>}
  ELSE FALSE

\* value + '_migrated': string concatenation of ToString(value)
PlusMigrated(value) == JsString(Append(value.repr, "_migrated"))

\* { ...object, property: value }
With(object, property, value) ==
  [p \in DOMAIN object \cup {property} |->
     IF p = property THEN value ELSE object[p]]

(***************************************************************************)
(* 'Migration Idempotency': the two migration functions                    *)
(***************************************************************************)
\* (variant: no version check, every record is migrated)
migrationFunctionUngated(data) ==
  [version |-> JsNumber("2"), data |-> PlusMigrated(Get(data, "data"))]

\* migrationFunction of 'should be idempotent when run multiple times'
migrationFunction(data) ==
  IF Get(data, "version") = JsNumber("1")
  THEN [version |-> JsNumber("2"), data |-> PlusMigrated(Get(data, "data"))]
  ELSE data

\* (variant: the migrated flag is not looked at)
migrationFunctionByFlagUnchecked(data) ==
  With(With(data, "version", JsNumber("2")), "migrated", JsBoolean(TRUE))

\* migrationFunction of 'should handle partial migration state correctly'
migrationFunctionByFlag(data) ==
  IF JsTruthy(Get(data, "migrated")) THEN data
  ELSE With(With(data, "version", JsNumber("2")), "migrated", JsBoolean(TRUE))

\* how often a migration function is applied to its own output
MaxRuns == 3

\* the values the properties of a test record take, and "none" for a
\* property the record lacks
VersionValues ==
  {JsNumber("1"), JsNumber("2"), JsNumber("1.5"), JsString(<<"1">>)}
DataValues ==
  {JsString(<<"original">>), JsString(<<"original", "_migrated">>),
   JsNumber("5")}
MigratedValues == {JsBoolean(TRUE), JsBoolean(FALSE), JsString(<<>>)}

\* the records the functions are given
Records ==
  {[p \in {q \in {"version", "data", "migrated"} : choice[q] # <<>>} |->
      choice[p][1]] :
     choice \in [version : {<<>>} \cup {<<v>> : v \in VersionValues},
                 data : {<<>>} \cup {<<v>> : v \in DataValues},
                 migrated : {<<>>} \cup {<<v>> : v \in MigratedValues}]}

\* the primitive's variables while the tests' own subjects are exercised
PrimitiveIdle ==
  /\ fs = EmptyFs
  /\ startFs = EmptyFs
  /\ dirMode = [d \in Dirs |-> "rwx"]
  /\ readdir = <<>>
  /\ held = Undefined
  /\ last = NoCall
  /\ prev = <<FALSE, "other", {}>>
  /\ calls = NoCalls

IdempotencyInit ==
  /\ PrimitiveIdle
  /\ \E data \in Records, subject \in {"byVersion", "byFlag"} :
       fixture = [subject |-> subject, input |-> data, current |-> data,
                  afterFirst |-> data, runs |-> 0]

\* const result = migrationFunction(currentData), on the result so far
RunByVersion ==
  /\ fixture.subject = "byVersion"
  /\ fixture.runs < MaxRuns
  /\ LET result == migrationFunction(fixture.current) IN
     fixture' = [fixture EXCEPT
                   !.current = result,
                   !.afterFirst = IF fixture.runs = 0 THEN result ELSE @,
                   !.runs = @ + 1]
  /\ UNCHANGED primitiveVars

RunByFlag ==
  /\ fixture.subject = "byFlag"
  /\ fixture.runs < MaxRuns
  /\ LET result == migrationFunctionByFlag(fixture.current) IN
     fixture' = [fixture EXCEPT
                   !.current = result,
                   !.afterFirst = IF fixture.runs = 0 THEN result ELSE @,
                   !.runs = @ + 1]
  /\ UNCHANGED primitiveVars

IdempotencyNext == RunByVersion \/ RunByFlag

IdempotencySpec == IdempotencyInit /\ [][IdempotencyNext]_vars

(***************************************************************************)
(* 'Rollback Procedures': backups and rollbackProcedure                    *)
(***************************************************************************)
\* const files = [...], in forEach order
BackedUpFiles == <<"config.json", "data.json", "metadata.json">>

BackupFileNames == {BackedUpFiles[i] : i \in DOMAIN BackedUpFiles}

\* the prefixes of the backup names: the one the backups are made under and
\* another one
BackupTimestamps == {"t1", "t2"}

\* what a data file holds: the original state, the migrated state, or
\* something else written over it
FileStates == {"original", "migrated", "corrupt"}

\* no file at the path
Missing == "missing"

\* (variant: a file without a backup is passed over)
RECURSIVE rollbackFromSkipping(_, _, _, _)
rollbackFromSkipping(data, backups, timestamp, i) ==
  IF i > Len(BackedUpFiles) THEN [data |-> data, returned |-> TRUE]
  ELSE LET filename == BackedUpFiles[i] IN
       IF backups[timestamp][filename] # Missing
       THEN rollbackFromSkipping(
              [data EXCEPT ![filename] = backups[timestamp][filename]],
              backups, timestamp, i + 1)
       ELSE rollbackFromSkipping(data, backups, timestamp, i + 1)

\* files.forEach of rollbackProcedure from the i-th file on: copy the
\* backup over the data file, or throw when there is no backup
RECURSIVE rollbackFrom(_, _, _, _)
rollbackFrom(data, backups, timestamp, i) ==
  IF i > Len(BackedUpFiles) THEN [data |-> data, returned |-> TRUE]
  ELSE LET filename == BackedUpFiles[i] IN
       IF backups[timestamp][filename] # Missing
       THEN rollbackFrom(
              [data EXCEPT ![filename] = backups[timestamp][filename]],
              backups, timestamp, i + 1)
       ELSE [data |-> data, returned |-> FALSE]

\* rollbackProcedure(timestamp): the data files it leaves and what it returns
rollbackProcedure(data, backups, timestamp) ==
  rollbackFrom(data, backups, timestamp, 1)

NoBackups ==
  [t \in BackupTimestamps |-> [f \in BackupFileNames |-> Missing]]

BackupInit ==
  /\ PrimitiveIdle
  /\ \E data \in [BackupFileNames -> {"original", "migrated"}] :
       fixture = [subject |-> "backup", phase |-> "setup", data |-> data,
                  backups |-> NoBackups, backedUpAt |-> "none",
                  atBackup |-> data, beforeRollback |-> data,
                  timestamp |-> "none", returned |-> FALSE]

\* files.forEach(filename => fs.copyFileSync(sourcePath, backupPath))
CreateBackups(timestamp) ==
  /\ fixture.subject = "backup" /\ fixture.phase = "setup"
  /\ fixture' = [fixture EXCEPT
                   !.phase = "backedUp",
                   !.backups[timestamp] = fixture.data,
                   !.backedUpAt = timestamp,
                   !.atBackup = fixture.data]
  /\ UNCHANGED primitiveVars

\* fs.writeFileSync(filePath, ...): a migration, or a failed one, rewrites
\* a data file
RewriteFile(filename, state) ==
  /\ fixture.subject = "backup" /\ fixture.phase = "backedUp"
  /\ fixture.data[filename] # state
  /\ fixture' = [fixture EXCEPT !.data[filename] = state]
  /\ UNCHANGED primitiveVars

\* a backup file is lost before the rollback
LoseBackup(filename) ==
  /\ fixture.subject = "backup" /\ fixture.phase = "backedUp"
  /\ fixture.backups[fixture.backedUpAt][filename] # Missing
  /\ fixture' = [fixture EXCEPT
                   !.backups[fixture.backedUpAt][filename] = Missing]
  /\ UNCHANGED primitiveVars

\* const rollbackSuccess = rollbackProcedure(timestamp)
RunRollbackProcedure(timestamp) ==
  /\ fixture.subject = "backup" /\ fixture.phase = "backedUp"
  /\ LET out == rollbackProcedure(fixture.data, fixture.backups, timestamp)
     IN fixture' = [fixture EXCEPT
                      !.phase = "rolledBack",
                      !.beforeRollback = fixture.data,
                      !.data = out.data,
                      !.timestamp = timestamp,
                      !.returned = out.returned]
  /\ UNCHANGED primitiveVars

BackupNext ==
  \/ \E timestamp \in BackupTimestamps : CreateBackups(timestamp)
  \/ \E filename \in BackupFileNames, state \in FileStates :
       RewriteFile(filename, state)
  \/ \E filename \in BackupFileNames : LoseBackup(filename)
  \/ \E timestamp \in BackupTimestamps : RunRollbackProcedure(timestamp)

BackupSpec == BackupInit /\ [][BackupNext]_vars

(***************************************************************************)
(* 'should validate rollback completion': the status file                  *)
(***************************************************************************)
\* status: 'started' | 'completed' | 'failed'
RollbackStatuses == {"started", "completed", "failed"}

\* the details a caller passes: none, or an object (here one that has a
\* status property of its own)
StatusDetails == {<<>>, <<"status", "completed", "errors", "0">>}

\* how many status calls a run makes
MaxStatusCalls == 3

\* JSON.stringify of an object with string or object values: the property
\* names and values in order, a nested object as one member
JsonStringify(names, object) ==
  [i \in 1..(2 * Len(names)) |->
     IF i % 2 = 1 THEN names[(i + 1) \div 2] ELSE object[names[i \div 2]]]

\* JSON.parse of such a text: the object with those properties
JsonParse(text) ==
  [name \in {text[2 * k - 1] : k \in 1..(Len(text) \div 2)} |->
     text[2 * (CHOOSE k \in 1..(Len(text) \div 2) : text[2 * k - 1] = name)]]

\* trackRollbackStatus(status, details): the text written to the status file
trackRollbackStatus(status, details) ==
  JsonStringify(<<"status", "timestamp", "details">>,
                [status |-> <<status>>, timestamp |-> <<"now">>,
                 details |-> IF details # <<>> THEN details ELSE <<"null">>])

\* (variant: any status file counts as a completed rollback)
validateRollbackCompletionByFile(statusFile) == statusFile # Missing

\* validateRollbackCompletion()
validateRollbackCompletion(statusFile) ==
  IF statusFile = Missing THEN FALSE
  ELSE JsonParse(statusFile[1])["status"] = <<"completed">>

StatusInit ==
  /\ PrimitiveIdle
  /\ fixture = [subject |-> "status", statusFile |-> Missing,
                recorded |-> <<>>, validated |-> "never"]

\* trackRollbackStatus(status, details)
TrackRollbackStatus(status, details) ==
  /\ fixture.subject = "status"
  /\ Len(fixture.recorded) < MaxStatusCalls
  /\ fixture' = [fixture EXCEPT
                   !.statusFile = <<trackRollbackStatus(status, details)>>,
                   !.recorded = Append(@, status),
                   !.validated = "never"]
  /\ UNCHANGED primitiveVars

\* validateRollbackCompletion()
ValidateRollbackCompletion ==
  /\ fixture.subject = "status"
  /\ fixture.validated = "never"
  /\ fixture' = [fixture EXCEPT
                   !.validated =
                     IF validateRollbackCompletion(fixture.statusFile)
                     THEN "true" ELSE "false"]
  /\ UNCHANGED primitiveVars

StatusNext ==
  \/ \E status \in RollbackStatuses, details \in StatusDetails :
       TrackRollbackStatus(status, details)
  \/ ValidateRollbackCompletion

StatusSpec == StatusInit /\ [][StatusNext]_vars

(***************************************************************************)
(* PerformanceMonitor of the SLO benchmarks: named lists of durations, the *)
(* statistics of a list and the SLO check on its 95th percentile.          *)
(***************************************************************************)

\* the largest number of durations the monitor holds under the name of the
\* long series, and under any other name
MaxSamples == 21
MaxFewSamples == 2

\* the name whose series is long enough for its percentiles to differ
LongSeries == "content-parse"

\* names of the measured paths
MetricNames == {"content-parse", "api-response"}

\* durations in milliseconds, as performance.now() - start gives them
Durations == {1, 2}

\* SLO thresholds in milliseconds
Thresholds == {1, 2}

\* new Map()
NoMeasurements == [name \in {} |-> <<>>]

\* this.measurements.get(name) || []
MeasurementsOf(measurements, name) ==
  IF name \in DOMAIN measurements THEN measurements[name] ELSE <<>>

\* recordMeasurement(name, duration)
recordMeasurement(measurements, name, duration) ==
  LET present ==
        IF name \notin DOMAIN measurements
        THEN [n \in DOMAIN measurements \cup {name} |->
                IF n = name THEN <<>> ELSE measurements[n]]
        ELSE measurements
  IN  [present EXCEPT ![name] = Append(@, duration)]

\* one step of sort((a, b) => a - b): v placed before the first larger value
RECURSIVE InsertAscending(_, _)
InsertAscending(sorted, v) ==
  IF sorted = <<>> THEN <<v>>
  ELSE IF v - Head(sorted) < 0 THEN <<v>> \o sorted
  ELSE <<Head(sorted)>> \o InsertAscending(Tail(sorted), v)

\* [...measurements].sort((a, b) => a - b)
RECURSIVE SortAscending(_)
SortAscending(values) ==
  IF values = <<>> THEN <<>>
  ELSE InsertAscending(SortAscending(Tail(values)), Head(values))

RECURSIVE Sum(_)
Sum(values) ==
  IF values = <<>> THEN 0 ELSE Head(values) + Sum(Tail(values))

\* sorted[Math.floor(sorted.length * 0.95)], the fraction in hundredths; the
\* product of a length and 0.5, 0.95 or 0.99 in double arithmetic rounds to
\* the exact product whenever that is an integer, so the floor is the exact
\* one; array indices start at 0, sequence indices at 1
Percentile(sorted, hundredths) ==
  sorted[((Len(sorted) * hundredths) \div 100) + 1]

\* getStats(name): Undefined stands for null; avg is the pair sum, count
getStats(measurements, name) ==
  LET recorded == MeasurementsOf(measurements, name)
      sorted == SortAscending(recorded)
  IN  IF Len(recorded) = 0 THEN Undefined
      ELSE <<[count |-> Len(recorded),
              avg |-> <<Sum(recorded), Len(recorded)>>,
              min |-> sorted[1],
              max |-> sorted[Len(sorted)],
              p50 |-> Percentile(sorted, 50),
              p95 |-> Percentile(sorted, 95),
              p99 |-> Percentile(sorted, 99)]>>

checkSLOByMax(measurements, name, threshold) ==
  LET stats == getStats(measurements, name)
  IN  IF stats = Undefined THEN FALSE
      ELSE Value(stats).max <= threshold

\* checkSLO(name, threshold)
checkSLO(measurements, name, threshold) ==
  LET stats == getStats(measurements, name)
  IN  IF stats = Undefined THEN FALSE
      ELSE Value(stats).p95 <= threshold

\* the latest call to the monitor and how it ended
MonitorCall(op, name, threshold, result) ==
  [op |-> op, name |-> name, threshold |-> threshold, result |-> result]

\* const monitor = new PerformanceMonitor(); completed is the history of the
\* durations of the measurements completed since the last reset, pending the
\* names with a measureAsync call waiting for its promise
MonitorInit ==
  /\ PrimitiveIdle
  /\ fixture = [subject |-> "monitor",
                measurements |-> NoMeasurements,
                completed |-> [name \in MetricNames |-> <<>>],
                pending |-> {},
                latest |-> MonitorCall("new", "", 0, "returned")]

\* the number of durations name may hold
SampleCap(name) == IF name = LongSeries THEN MaxSamples ELSE MaxFewSamples

\* name has room for the duration of one more measurement, counting the
\* measureAsync call that is waiting
HasRoom(name) ==
  Len(fixture.completed[name])
    + (IF name \in fixture.pending THEN 1 ELSE 0) < SampleCap(name)

\* the durations of one name are drawn slowest first
Admissible(name, duration) ==
  /\ HasRoom(name)
  /\ LET recorded == fixture.completed[name]
     IN  IF recorded = <<>> THEN TRUE
         ELSE duration <= recorded[Len(recorded)]

\* measureSync(name, fn): fn returns after duration, or throws and the
\* call ends before recordMeasurement
MeasureSync(name, duration, throws) ==
  /\ fixture.subject = "monitor"
  /\ Admissible(name, duration)
  /\ fixture' =
       IF throws
       THEN [fixture EXCEPT
               !.latest = MonitorCall("measureSync", name, 0, "threw")]
       ELSE [fixture EXCEPT
               !.measurements = recordMeasurement(@, name, duration),
               !.completed[name] = Append(@, duration),
               !.latest = MonitorCall("measureSync", name, 0, "returned")]
  /\ UNCHANGED primitiveVars

\* measureAsync(name, fn) up to its await
MeasureAsyncBegin(name) ==
  /\ fixture.subject = "monitor"
  /\ name \notin fixture.pending
  /\ HasRoom(name)
  /\ fixture' = [fixture EXCEPT
                   !.pending = @ \cup {name},
                   !.latest = MonitorCall("measureAsync", name, 0, "pending")]
  /\ UNCHANGED primitiveVars

\* measureAsync(name, fn) after its await: the promise is fulfilled after
\* duration, or rejected and the call ends before recordMeasurement
MeasureAsyncSettle(name, duration, rejects) ==
  /\ fixture.subject = "monitor"
  /\ name \in fixture.pending
  /\ LET recorded == fixture.completed[name]
     IN  IF recorded = <<>> THEN TRUE
         ELSE duration <= recorded[Len(recorded)]
  /\ fixture' =
       IF rejects
       THEN [fixture EXCEPT
               !.pending = @ \ {name},
               !.latest = MonitorCall("measureAsync", name, 0, "threw")]
       ELSE [fixture EXCEPT
               !.pending = @ \ {name},
               !.measurements = recordMeasurement(@, name, duration),
               !.completed[name] = Append(@, duration),
               !.latest = MonitorCall("measureAsync", name, 0, "returned")]
  /\ UNCHANGED primitiveVars

\* checkSLO(name, threshold)
CheckSLO(name, threshold) ==
  /\ fixture.subject = "monitor"
  /\ fixture' = [fixture EXCEPT
                   !.latest =
                     MonitorCall("checkSLO", name, threshold,
                       IF checkSLO(fixture.measurements, name, threshold)
                       THEN "true" ELSE "false")]
  /\ UNCHANGED primitiveVars

\* reset()
Reset ==
  /\ fixture.subject = "monitor"
  /\ fixture' = [fixture EXCEPT
                   !.measurements = NoMeasurements,
                   !.completed = [name \in MetricNames |-> <<>>],
                   !.latest = MonitorCall("reset", "", 0, "returned")]
  /\ UNCHANGED primitiveVars

MonitorNext ==
  \/ \E name \in MetricNames, duration \in Durations, throws \in BOOLEAN :
       MeasureSync(name, duration, throws)
  \/ \E name \in MetricNames : MeasureAsyncBegin(name)
  \/ \E name \in MetricNames, duration \in Durations, rejects \in BOOLEAN :
       MeasureAsyncSettle(name, duration, rejects)
  \/ \E name \in MetricNames, threshold \in Thresholds :
       CheckSLO(name, threshold)
  \/ Reset

MonitorSpec == MonitorInit /\ [][MonitorNext]_vars

(***************************************************************************)
(* Vocabulary of the properties                                            *)
(***************************************************************************)
Range(seq) == {seq[i] : i \in DOMAIN seq}

\* the names of the regular files of a directory
RegularFiles(fsys, dir) == {n \in Names : fsys[dir][n].kind = "file"}

\* what a directory holds under a name: whether and what it is, and its bytes
Holding(entry) == <<entry.kind, entry.bytes>>

\* two directory states hold the same files with the same contents
SameContent(dirA, dirB) == \A n \in Names : Holding(dirA[n]) = Holding(dirB[n])

\* the words occur in the message, next to each other and in this order
Mentions(message, words) ==
  \E i \in 0..(Len(message) - Len(words)) :
    \A j \in 1..Len(words) : message[i + j] = words[j]

\* a target file that a migration of this run wrote (what was there before
\* keeps the modification time "tgtM")
WrittenByMigration(entry) == entry.kind = "file" /\ entry.mtime # "tgtM"

MigrateReturned == last.op = "migrate"
MigrateSucceeded == last.op = "migrate" /\ last.result.success
RollbackReturned == last.op = "rollback"
ListedFiles == Range(Value(last.descriptor).migratedFiles)

(***************************************************************************)
(* C1 - C10                                                                *)
(***************************************************************************)
\* C1: a migration that repeats the previous migration (same directories and
\* options, nothing changed in between) leaves the target's file set and
\* contents as the first call left them and its migrated-file list is empty.
C1_MigrateIdempotent ==
  (MigrateReturned /\ prev[2] = "repeat") =>
    /\ SameContent(fs[TargetDir], last.preFs[TargetDir])
    /\ last.migratedFiles = <<>>

\* a repeated successful migration over a target that holds a file an earlier
\* migration wrote
C1_Witness ==
  /\ MigrateSucceeded /\ prev[1] /\ prev[2] = "repeat"
  /\ \E n \in RegularFiles(fs, SourceDir) : WrittenByMigration(fs[TargetDir][n])

\* C2: after a successful migration the target holds, for every regular
\* source file, a file of that name with the same bytes.
C2_MigrateComplete ==
  MigrateSucceeded =>
    \A n \in RegularFiles(fs, SourceDir) :
      Holding(fs[TargetDir][n]) = Holding(fs[SourceDir][n])

\* C3: a rollback of the descriptor the migration just returned leaves none
\* of the files the migration wrote in the target, leaves every other target
\* entry as it was, and leaves the source as it was.
C3_Reversible ==
  (RollbackReturned /\ prev[2] = "undo") =>
    /\ \A n \in ListedFiles : fs[TargetDir][n].kind = "absent"
    /\ \A n \in Names \ ListedFiles : fs[TargetDir][n] = last.preFs[TargetDir][n]
    /\ fs[SourceDir] = last.preFs[SourceDir]

\* a rollback that removed what the migration wrote while another target
\* file stayed
C3_Witness ==
  /\ RollbackReturned /\ prev[2] = "undo"
  /\ \E n \in ListedFiles : last.preFs[TargetDir][n].kind = "file"
  /\ \E n \in Names \ ListedFiles : fs[TargetDir][n].kind = "file"

\* C4: a rollback changes a target entry only by deleting a file whose name
\* the descriptor lists, and changes nothing in the source.
C4_RollbackFrame ==
  RollbackReturned =>
    /\ \A n \in Names :
         fs[TargetDir][n] # last.preFs[TargetDir][n] =>
           /\ n \in ListedFiles
           /\ last.preFs[TargetDir][n].kind = "file"
           /\ fs[TargetDir][n] = Absent
    /\ fs[SourceDir] = last.preFs[SourceDir]

\* a rollback that deleted a listed file and left an unlisted file in place
C4_Witness ==
  /\ RollbackReturned
  /\ \E n \in ListedFiles : fs[TargetDir][n] # last.preFs[TargetDir][n]
  /\ \E n \in Names \ ListedFiles : fs[TargetDir][n].kind = "file"
  /\ RegularFiles(fs, SourceDir) # {}

\* C5: a migration called while the target directory is not writable fails
\* with an error that mentions "permission denied" and leaves the target
\* exactly as it was.
C5_PermissionBoundary ==
  (MigrateReturned /\ last.preMode[TargetDir] # "rwx") =>
    /\ ~last.result.success
    /\ Mentions(last.result.error, <<"permission", "denied">>)
    /\ fs[TargetDir] = last.preFs[TargetDir]
    /\ last.migratedFiles = <<>>

\* a refused migration that had a file to copy into a target without it
C5_Witness ==
  /\ MigrateReturned /\ last.preMode[TargetDir] # "rwx"
  /\ \E n \in RegularFiles(fs, SourceDir) :
       fs[SourceDir][n].readable /\ fs[TargetDir][n].kind = "absent"

\* the retry meets no obstacle of its own: every source file is readable and
\* no directory sits in the target
NoOtherObstacle(fsys) ==
  \A n \in Names : /\ fsys[SourceDir][n].readable
                    /\ fsys[TargetDir][n].kind # "dir"
                    /\ fsys[TargetDir][n].writable

\* C6: a migration retried on a writable target after a migration that was
\* refused for lack of write permission (and that meets no other obstacle)
\* succeeds, and the target then holds every regular source file with the
\* same bytes.
C6_RetryAfterFailure ==
  (/\ MigrateReturned /\ prev[2] = "retry" /\ last.preMode[TargetDir] = "rwx"
   /\ last.preMode[SourceDir] = "rwx" /\ NoOtherObstacle(last.preFs)) =>
    /\ last.result.success
    /\ \A n \in RegularFiles(fs, SourceDir) :
         Holding(fs[TargetDir][n]) = Holding(fs[SourceDir][n])

\* C7 as stated: a rollback that repeats the previous rollback returns
\* success as the first did, and leaves the target as the first left it.
C7_RollbackTwiceSucceeds ==
  (RollbackReturned /\ prev[2] = "repeat") =>
    /\ prev[1] /\ last.result.success
    /\ fs[TargetDir] = last.preFs[TargetDir]

\* C7 (amended): a rollback that repeats the previous rollback leaves the
\* target as the first left it and succeeds if the first succeeded; a
\* rollback whose listed files are all absent succeeds.
C7_RollbackIdempotent ==
  /\ (RollbackReturned /\ prev[2] = "repeat") =>
       /\ fs[TargetDir] = last.preFs[TargetDir]
       /\ prev[1] => last.result.success
  /\ (RollbackReturned /\
        \A n \in ListedFiles : last.preFs[TargetDir][n].kind = "absent") =>
       last.result.success

\* a second, successful rollback of a descriptor that lists files, all of
\* them already gone
C7_Witness ==
  /\ RollbackReturned /\ prev[1] /\ prev[2] = "repeat"
  /\ ListedFiles # {}
  /\ last.result.success

\* C8: the descriptor of a successful migration lists exactly the regular
\* source files whose target was absent or held different bytes before the
\* call, and names the directories of the call.
C8_DescriptorContent ==
  (MigrateSucceeded /\ last.options.createRollbackInfo = True) =>
    /\ last.result.rollbackInfo # Undefined
    /\ LET info == Value(last.result.rollbackInfo) IN
       /\ Range(info.migratedFiles) =
            {n \in RegularFiles(last.preFs, SourceDir) :
               Holding(last.preFs[TargetDir][n]) #
                 Holding(last.preFs[SourceDir][n])}
       /\ info.sourceDir = SourceDir
       /\ info.targetDir = TargetDir

\* C9: the integrity report of a successful migration counts the regular
\* source files of the pass, one per checksum.
C9_IntegrityCount ==
  (MigrateSucceeded /\ last.options.enableIntegrityChecks = True) =>
    /\ last.result.integrityChecks # Undefined
    /\ LET report == Value(last.result.integrityChecks) IN
       /\ report.fileCount = Cardinality(DOMAIN report.checksums)
       /\ report.fileCount = Cardinality(RegularFiles(last.preFs, SourceDir))

\* C10: no migration, whatever its options and outcome, changes the source
\* directory.
C10_SourceReadOnly ==
  MigrateReturned => fs[SourceDir] = last.preFs[SourceDir]

\* a migration with preserveOriginal false that copied a file, and a failed
\* one that had copied a file before it failed
C10_Witness ==
  /\ MigrateReturned
  /\ last.migratedFiles # <<>>
  /\ \/ last.options.preserveOriginal = False
     \/ ~last.result.success

(***************************************************************************)
(* The pass over the source entries, seen from the state before the call   *)
(***************************************************************************)
\* the source entries in the order the latest call enumerated them
Listing == Readdir(last.preFs, readdir, SourceDir)

\* the latest call passed the permission check and could list the source
PassRan ==
  last.preMode[TargetDir] = "rwx" /\ last.preMode[SourceDir] = "rwx"

\* an I/O operation on entry n fails: the source file cannot be read, the
\* target path is a directory, or the target file differs and is read-only
FaultsAt(fsys, n) ==
  LET src == fsys[SourceDir][n]
      tgt == fsys[TargetDir][n]
  IN /\ src.kind = "file"
     /\ \/ ~src.readable
        \/ tgt.kind = "dir"
        \/ /\ tgt.kind = "file" /\ ~tgt.writable
           /\ utf8Decode(tgt.bytes) # utf8Decode(src.bytes)

\* the position in the listing of the first entry that fails, 0 if none does
FirstFault ==
  LET failing == {i \in DOMAIN Listing : FaultsAt(last.preFs, Listing[i])}
  IN IF failing = {} THEN 0
     ELSE CHOOSE i \in failing : \A j \in failing : i <= j

\* the source entries the latest pass had not reached when it stopped
NotReached ==
  IF ~PassRan THEN Range(Listing)
  ELSE IF FirstFault = 0 THEN {}
  ELSE {Listing[i] : i \in (FirstFault + 1)..Len(Listing)}

\* C11: a migration whose k-th source entry fails returns success false with
\* an error, has examined the first k entries only, leaves the target entries
\* of the later ones as they were, and leaves every file it wrote before the
\* k-th in the target holding the bytes of its source file, whatever
\* skipOnError is
C11_AbortOnFirstError ==
  (MigrateReturned /\ PassRan /\ FirstFault > 0) =>
    /\ ~last.result.success
    /\ last.result.error # NoError
    /\ last.examined = SubSeq(Listing, 1, FirstFault)
    /\ \A n \in NotReached : fs[TargetDir][n] = last.preFs[TargetDir][n]
    /\ \A n \in Range(last.migratedFiles) :
         Holding(fs[TargetDir][n]) = Holding(fs[SourceDir][n])

\* C12: after a migration that returned success false, the target entry of
\* every source entry the pass had not reached, and of every name that is
\* not in the source, exists and holds what it did before the call
C12_UnreachedUntouched ==
  (MigrateReturned /\ ~last.result.success) =>
    \A n \in NotReached \cup (Names \ Range(Listing)) :
      Holding(fs[TargetDir][n]) = Holding(last.preFs[TargetDir][n])

\* a pass that failed at its first entry and left alone the later entry, a
\* readable file whose target file the pass would have written
C12_Witness ==
  /\ MigrateReturned /\ ~last.result.success
  /\ PassRan /\ FirstFault = 1
  /\ \E n \in NotReached :
       /\ fs[SourceDir][n].readable /\ fs[TargetDir][n].writable
       /\ fs[SourceDir][n].kind = "file"
       /\ Holding(fs[TargetDir][n]) # Holding(fs[SourceDir][n])

\* a refused migration that left alone a target file without a source entry
C12_WitnessForeign ==
  /\ MigrateReturned /\ ~last.result.success
  /\ \E n \in Names \ Range(Listing) : fs[TargetDir][n].kind = "file"

EntryFaultMessage(fsys, n) ==
  IF ~fsys[SourceDir][n].readable THEN ErrnoMessage("EACCES", "open")
  ELSE IF fsys[TargetDir][n].kind = "dir" THEN ErrnoMessage("EISDIR", "read")
  ELSE ErrnoMessage("EACCES", "open")

\* the files of the descriptor an unlink is attempted on and refused: the
\* listed files that exist in a target that can be searched but not written
RefusedUnlinks ==
  IF last.preMode[TargetDir] # "r-x" THEN {}
  ELSE {n \in ListedFiles : last.preFs[TargetDir][n].kind # "absent"}

\* C14: no exception leaves performMockMigration or performMockRollback;
\* when the source directory cannot be listed, a source file cannot be read,
\* a write fails or an unlink fails, the call returns success false and the
\* error is the message of that I/O error
C14_NoFaultEscapes ==
  /\ last.op # "none" => last.thrown = NoError
  /\ (MigrateReturned /\ last.preMode[TargetDir] = "rwx"
        /\ last.preMode[SourceDir] # "rwx") =>
       /\ ~last.result.success
       /\ last.result.error = ErrnoMessage("EACCES", "scandir")
  /\ (MigrateReturned /\ PassRan /\ FirstFault > 0) =>
       /\ ~last.result.success
       /\ last.result.error
            = EntryFaultMessage(last.preFs, Listing[FirstFault])
  /\ (RollbackReturned /\ RefusedUnlinks # {}) =>
       /\ ~last.result.success
       /\ last.result.error = ErrnoMessage("EACCES", "unlink")

\* a migration that returned the error of a failed write
C14_Witness ==
  /\ MigrateReturned /\ PassRan /\ FirstFault > 0
  /\ ~last.result.success
  /\ last.preFs[SourceDir][Listing[FirstFault]].readable
  /\ ~last.preFs[TargetDir][Listing[FirstFault]].writable

\* a rollback that returned the error of a failed unlink
C14_WitnessRollback ==
  /\ RollbackReturned /\ RefusedUnlinks # {}
  /\ ~last.result.success

\* the listed files in descriptor order
ListedOrder == Value(last.descriptor).migratedFiles

\* the position in the descriptor of the first file whose unlink is refused,
\* 0 if none is
FirstRefused ==
  LET failing == {i \in DOMAIN ListedOrder : ListedOrder[i] \in RefusedUnlinks}
  IN IF failing = {} THEN 0
     ELSE CHOOSE i \in failing : \A j \in failing : i <= j

\* C15: a rollback returns success true exactly when afterwards every file
\* of its descriptor is gone from the descriptor's target (deleted by the
\* call or absent before it); when an unlink fails it returns success false
\* with an error and the files listed before the failing one are gone
C15_RollbackResultSemantics ==
  RollbackReturned =>
    /\ last.result.success <=>
         \A n \in ListedFiles : fs[TargetDir][n].kind = "absent"
    /\ FirstRefused > 0 =>
         /\ ~last.result.success
         /\ last.result.error # NoError
         /\ \A i \in 1..(FirstRefused - 1) :
              fs[TargetDir][ListedOrder[i]].kind = "absent"

\* C18: after a successful migration every target file that had the name of
\* a regular source file and other bytes has been overwritten and recorded,
\* and no target file with the name of a regular source file holds bytes
\* other than the source's
C18_UpdateInPlace ==
  MigrateSucceeded =>
    \A n \in RegularFiles(last.preFs, SourceDir) :
      /\ (/\ last.preFs[TargetDir][n].kind = "file"
          /\ last.preFs[TargetDir][n].bytes # last.preFs[SourceDir][n].bytes) =>
           /\ n \in Range(last.migratedFiles)
           /\ WrittenByMigration(fs[TargetDir][n])
      /\ fs[TargetDir][n].kind = "file" =>
           fs[TargetDir][n].bytes = fs[SourceDir][n].bytes

\* C19: a sub-directory of the source is not copied: its name gets nothing
\* in the target, is not in the migrated list nor in the checksum map, and
\* a migration that meets no I/O error on a regular file succeeds whatever
\* sub-directories the source holds
C19_FlatDirectory ==
  MigrateReturned =>
    /\ \A n \in Names :
         last.preFs[SourceDir][n].kind = "dir" =>
           /\ fs[TargetDir][n] = last.preFs[TargetDir][n]
           /\ fs[SourceDir][n] = last.preFs[SourceDir][n]
           /\ n \notin Range(last.migratedFiles)
           /\ n \notin DOMAIN last.checksums
    /\ Range(last.migratedFiles) \subseteq RegularFiles(last.preFs, SourceDir)
    /\ (PassRan /\ FirstFault = 0) => last.result.success

\* a successful migration with integrity checks of a source that holds a
\* sub-directory, whose name the target lacks, beside a file it copied
C19_Witness ==
  /\ MigrateSucceeded
  /\ last.options.enableIntegrityChecks = True
  /\ last.migratedFiles # <<>>
  /\ \E n \in Names : /\ last.preFs[SourceDir][n].kind = "dir"
                       /\ fs[TargetDir][n].kind = "absent"

\* C20: after a successful migration with enableIntegrityChecks, the
\* checksum returned for every regular source file is the checksum of the
\* text the source file reads as and of the text the target file of that
\* name reads as
C20_ChecksumRoundTrip ==
  (MigrateSucceeded /\ last.options.enableIntegrityChecks = True) =>
    LET recorded == Value(last.result.integrityChecks).checksums IN
    \A n \in RegularFiles(fs, SourceDir) :
      /\ n \in DOMAIN recorded
      /\ fs[TargetDir][n].kind = "file"
      /\ recorded[n] = calculateMockChecksum(utf8Decode(fs[SourceDir][n].bytes))
      /\ recorded[n] = calculateMockChecksum(utf8Decode(fs[TargetDir][n].bytes))

\* a successful migration with integrity checks that wrote one file and
\* found the other already in place
C20_Witness ==
  /\ MigrateSucceeded
  /\ last.options.enableIntegrityChecks = True
  /\ Len(last.migratedFiles) = 1
  /\ Cardinality(RegularFiles(fs, SourceDir)) = 2

(***************************************************************************)
(* Two migrations at the same time                                         *)
(***************************************************************************)
BothReturned == \A c \in CallIds : calls[c].pc = "done"

\* what the call returns and leaves when it runs alone from the start
Alone(c) ==
  performMockMigration(startFs, dirMode, readdir, SourceDir,
                       calls[c].targetDir, calls[c].options)

\* C16: when two migrations into different target directories have run
\* interleaved, each has returned the result, and left in its target the
\* entries, that it returns and leaves when it runs alone
C16_DifferentTargetsIndependent ==
  (BothReturned /\ calls["first"].targetDir # calls["second"].targetDir) =>
    \A c \in CallIds :
      /\ Value(calls[c].result) = Alone(c).result
      /\ fs[calls[c].targetDir] = Alone(c).fs[calls[c].targetDir]

\* two interleaved migrations into different targets that each wrote a file
C16_Witness ==
  /\ BothReturned
  /\ calls["first"].targetDir # calls["second"].targetDir
  /\ \A c \in CallIds : calls[c].migratedFiles # <<>>

\* C17: of two migrations of the same source into the same target, both
\* record a file as migrated only when one of them wrote it after the other
\* had changed the target file between its check and its write; such a
\* state is reachable
C17_SameTargetRace ==
  calls["first"].targetDir = calls["second"].targetDir =>
    \A n \in Names :
      (\A c \in CallIds : n \in Range(calls[c].migratedFiles)) =>
        \E c \in CallIds : n \in calls[c].staleWrites

\* both calls returned success and both recorded the same file as migrated,
\* one of them having overwritten what the other had just written
C17_Witness ==
  /\ BothReturned
  /\ calls["first"].targetDir = calls["second"].targetDir
  /\ \A c \in CallIds : Value(calls[c].result).success
  /\ \E n \in Names :
       /\ \A c \in CallIds : n \in Range(calls[c].migratedFiles)
       /\ \E c \in CallIds : n \in calls[c].staleWrites

(***************************************************************************)
(* One pass                                                                *)
(***************************************************************************)
\* the file operations of one loop iteration, in program order
EntryOperations == <<"stat", "read", "exists", "compare", "write", "utimes">>

\* how far a call has come: the number of file operations of the longest
\* pass that lie behind its position
Progress(locals) ==
  LET perEntry == Len(EntryOperations)
      whole == 2 + perEntry * Cardinality(Names)
  IN IF locals.pc = "access" THEN 0
     ELSE IF locals.pc = "readdir" THEN 1
     ELSE IF locals.pc = "return" THEN whole
     ELSE IF locals.pc = "done" THEN whole + 1
     ELSE 2 + perEntry * (locals.i - 1)
            + (CHOOSE k \in DOMAIN EntryOperations :
                 EntryOperations[k] = locals.pc) - 1

\* C21: a call of performMockMigration examines the source entries one at a
\* time in the order readdirSync listed them, each at most once, records
\* the files it writes in that order without duplicates, ends with a
\* result, and every file operation moves it forward in its single pass,
\* whatever options.retry is
C21_SinglePass ==
  /\ [](\A c \in CallIds :
         LET locals == calls[c] IN
         /\ locals.files \in {<<>>, Readdir(startFs, readdir, SourceDir)}
         /\ locals.examined = SubSeq(locals.files, 1, Len(locals.examined))
         /\ locals.migratedFiles =
              SelectSeq(locals.examined,
                        LAMBDA n : n \in Range(locals.migratedFiles))
         /\ locals.pc \in Range(EntryOperations) =>
              /\ locals.i \in DOMAIN locals.files
              /\ Len(locals.examined)
                   = IF locals.pc = "stat" THEN locals.i - 1 ELSE locals.i
         /\ locals.pc = "done" <=> locals.result # Undefined)
  /\ [][\A c \in CallIds :
          /\ Progress(calls'[c]) >= Progress(calls[c])
          /\ calls'[c] # calls[c] => Progress(calls'[c]) > Progress(calls[c])]_vars

\* a call with options.retry that met a failing entry after it wrote a
\* file, and returned
C21_Witness ==
  \E c \in CallIds :
    /\ calls[c].pc = "done"
    /\ calls[c].options.retry = True
    /\ calls[c].error # NoError
    /\ Len(calls[c].examined) = 2
    /\ Len(calls[c].migratedFiles) = 1

\* C22: after a successful migration with preserveMetadata every file the
\* call wrote has the modification time of its source file; without
\* preserveMetadata every file a call wrote has the times the write itself
\* left, never the source's
C22_TimestampPreservation ==
  MigrateReturned =>
    \A n \in Range(last.migratedFiles) :
      /\ (last.result.success /\ last.options.preserveMetadata = True) =>
           fs[TargetDir][n].mtime = last.preFs[SourceDir][n].mtime
      /\ last.options.preserveMetadata # True =>
           /\ fs[TargetDir][n].mtime = "now"
           /\ fs[TargetDir][n].atime =
                IF last.preFs[TargetDir][n].kind = "file"
                THEN last.preFs[TargetDir][n].atime ELSE "now"

\* a successful migration with preserveMetadata that overwrote a file
C22_Witness ==
  /\ MigrateSucceeded
  /\ last.options.preserveMetadata = True
  /\ \E n \in Range(last.migratedFiles) :
       /\ last.preFs[TargetDir][n].kind = "file"
       /\ fs[TargetDir][n].mtime = "srcM"

(***************************************************************************)
(* What a rollback does not give back, and what a migration leaves alone   *)
(***************************************************************************)
\* C27: a successful rollback of the descriptor of the migration just made
\* finds every file that migration overwrote listed in the descriptor and
\* deletes it: the name that held a file before the migration holds nothing
\* after the rollback
C27_OverwrittenNotRestored ==
  (RollbackReturned /\ prev[2] = "undo" /\ last.result.success
     /\ last.preMode[TargetDir] = "rwx") =>
    \A n \in prev[3] :
      /\ n \in ListedFiles
      /\ last.preFs[TargetDir][n].kind = "file"
      /\ fs[TargetDir][n].kind = "absent"

\* a rollback that deleted a file the migration had overwritten
C27_Witness ==
  /\ RollbackReturned /\ prev[2] = "undo" /\ last.result.success
  /\ last.preMode[TargetDir] = "rwx"
  /\ \E n \in prev[3] : fs[TargetDir][n].kind = "absent"

\* C28: a migration that returns success false returns neither rollbackInfo
\* nor integrityChecks, whatever the options and whatever it wrote
C28_NoDescriptorOnFailure ==
  (MigrateReturned /\ ~last.result.success) =>
    /\ last.result.rollbackInfo = Undefined
    /\ last.result.integrityChecks = Undefined

\* a failed migration with createRollbackInfo that had written a file
C28_Witness ==
  /\ MigrateReturned /\ ~last.result.success
  /\ last.options.createRollbackInfo = True
  /\ last.migratedFiles # <<>>
  /\ WrittenByMigration(fs[TargetDir][last.migratedFiles[1]])

\* C29: a migration leaves every target entry whose name is not the name of
\* a regular source file as it was, and takes no entry out of the target
C29_UnrelatedUntouched ==
  MigrateReturned =>
    \A n \in Names :
      /\ last.preFs[SourceDir][n].kind # "file" =>
           Holding(fs[TargetDir][n]) = Holding(last.preFs[TargetDir][n])
      /\ last.preFs[TargetDir][n].kind # "absent" =>
           fs[TargetDir][n].kind = last.preFs[TargetDir][n].kind

\* a migration that wrote a file beside a target file without a source file
C29_Witness ==
  /\ MigrateReturned
  /\ last.migratedFiles # <<>>
  /\ \E n \in Names : /\ last.preFs[SourceDir][n].kind # "file"
                       /\ fs[TargetDir][n].kind = "file"

C23_VersionGatedIdempotent ==
  LET x == fixture.input IN
  fixture.runs >= 1 =>
    /\ fixture.current = fixture.afterFirst
    /\ fixture.subject = "byVersion" =>
         IF "version" \in DOMAIN x /\ x["version"] = JsNumber("1")
         THEN /\ DOMAIN fixture.current = {"version", "data"}
              /\ fixture.current["version"] = JsNumber("2")
              /\ fixture.current["data"].type = "string"
              /\ fixture.current["data"].repr
                   = Get(x, "data").repr \o <<"_migrated">>
         ELSE fixture.current = x
    /\ (/\ fixture.subject = "byFlag"
        /\ "migrated" \in DOMAIN x /\ x["migrated"] = JsBoolean(TRUE)) =>
         fixture.current = x

\* the version-gated function applied twice to a record of version 1
C23_Witness ==
  /\ fixture.subject = "byVersion"
  /\ fixture.runs = 2
  /\ Get(fixture.input, "version") = JsNumber("1")
  /\ Get(fixture.current, "version") = JsNumber("2")

\* the flag-gated function applied twice to a record that was not migrated
C23_WitnessByFlag ==
  /\ fixture.subject = "byFlag"
  /\ fixture.runs = 2
  /\ ~JsTruthy(Get(fixture.input, "migrated"))

\* the position of the first listed file that has no backup under the
\* timestamp the rollback was given, 0 when every file has one
FirstMissingBackup ==
  LET missing == {i \in DOMAIN BackedUpFiles :
                    fixture.backups[fixture.timestamp][BackedUpFiles[i]]
                      = Missing}
  IN IF missing = {} THEN 0
     ELSE CHOOSE i \in missing : \A j \in missing : i <= j

\* C24: rollbackProcedure, given the timestamp of the backups, returns true
\* and leaves every listed file as it was at backup time when no backup is
\* missing; when one is missing it returns false, the files listed before
\* the first missing one are as at backup time and the others are as they
\* were before the rollback
C24_BackupRollbackRestores ==
  (fixture.phase = "rolledBack" /\ fixture.timestamp = fixture.backedUpAt) =>
    IF FirstMissingBackup = 0
    THEN /\ fixture.returned
         /\ fixture.data = fixture.atBackup
    ELSE /\ ~fixture.returned
         /\ \A i \in DOMAIN BackedUpFiles :
              fixture.data[BackedUpFiles[i]] =
                IF i < FirstMissingBackup
                THEN fixture.atBackup[BackedUpFiles[i]]
                ELSE fixture.beforeRollback[BackedUpFiles[i]]

\* a rollback that met a missing backup at the second file, after it had
\* restored the first, and left the rewritten third as it was
C24_Witness ==
  /\ fixture.phase = "rolledBack" /\ fixture.timestamp = fixture.backedUpAt
  /\ FirstMissingBackup = 2
  /\ fixture.beforeRollback[BackedUpFiles[1]] # fixture.atBackup[BackedUpFiles[1]]
  /\ fixture.data[BackedUpFiles[3]] # fixture.atBackup[BackedUpFiles[3]]

\* a complete rollback of three rewritten files
C24_WitnessComplete ==
  /\ fixture.phase = "rolledBack" /\ fixture.timestamp = fixture.backedUpAt
  /\ fixture.returned
  /\ \A f \in BackupFileNames :
       fixture.beforeRollback[f] # fixture.atBackup[f]

\* C25: validateRollbackCompletion returns true exactly when a status was
\* recorded and the latest one recorded is 'completed', whatever was
\* recorded before it
C25_StatusTracking ==
  (fixture.subject = "status" /\ fixture.validated # "never") =>
    (fixture.validated = "true" <=>
       /\ fixture.recorded # <<>>
       /\ fixture.recorded[Len(fixture.recorded)] = "completed")

\* a validation that returned false after 'completed' and then 'failed'
\* were recorded
C25_Witness ==
  /\ fixture.subject = "status"
  /\ fixture.validated = "false"
  /\ Len(fixture.recorded) >= 2
  /\ fixture.recorded[Len(fixture.recorded) - 1] = "completed"
  /\ fixture.recorded[Len(fixture.recorded)] = "failed"

\* the values of durations that stand at 0-based index k once the durations
\* are in ascending order: at most k durations are smaller, more than k are
\* not larger
AtSortedIndex(durations, k) ==
  {v \in Range(durations) :
     /\ Cardinality({i \in DOMAIN durations : durations[i] < v}) <= k
     /\ Cardinality({i \in DOMAIN durations : durations[i] <= v}) > k}

\* C26: checkSLO(name, threshold) returns false when no measurement was
\* completed under name since the last reset, and otherwise true exactly when
\* the duration at index floor(0.95 * n) of the n completed durations in
\* ascending order is at most threshold; every completed measureSync or
\* measureAsync call adds one duration under its name, so getStats(name) is
\* null before the first and has count equal to the number completed after.
C26_SloCheck ==
  fixture.subject = "monitor" =>
    /\ \A name \in MetricNames :
         LET n == Len(fixture.completed[name])
             stats == getStats(fixture.measurements, name)
         IN  IF n = 0 THEN stats = Undefined
             ELSE stats # Undefined /\ Value(stats).count = n
    /\ fixture.latest.op = "checkSLO" =>
         LET durations == fixture.completed[fixture.latest.name]
             n == Len(durations)
         IN  fixture.latest.result = "true" <=>
               /\ n > 0
               /\ \E v \in AtSortedIndex(durations, (95 * n) \div 100) :
                    v <= fixture.latest.threshold

\* a check that passes over enough durations for index floor(0.95 * n) to
\* lie below the last one, the slowest duration being over the threshold
C26_Witness ==
  /\ fixture.subject = "monitor"
  /\ fixture.latest.op = "checkSLO"
  /\ fixture.latest.result = "true"
  /\ LET durations == fixture.completed[fixture.latest.name]
     IN  /\ (95 * Len(durations)) \div 100 < Len(durations) - 1
         /\ \E i \in DOMAIN durations : durations[i] > fixture.latest.threshold

\* a check that fails because no measurement has completed under the name,
\* a measureAsync call still waiting
C26_WitnessReset ==
  /\ fixture.subject = "monitor"
  /\ fixture.latest.op = "checkSLO"
  /\ fixture.latest.result = "false"
  /\ fixture.completed[fixture.latest.name] = <<>>
  /\ fixture.pending # {}

====
